---- MODULE Spec2Model ----
(***************************************************************************)
(* A model of imgclsmob's numpy segmentation metrics                       *)
(* (gluon/seg_metrics_np.py) and of the tensorpack training utilities      *)
(* (tensorflow_/utils_tp.py): GoogleNetResize._augment,                    *)
(* get_imagenet_dataflow, prepare_tf_context and prepare_model.            *)
(*                                                                         *)
(* Masks are flat sequences of pixels (the metrics read the arrays only    *)
(* through elementwise operations, np.sum and np.histogram, so the 2-D     *)
(* shape is the number of pixels).  An index mask is a sequence of class   *)
(* indices, a one-hot mask a sequence (one entry per class) of 0/1 planes. *)
(*                                                                         *)
(* The value a skip-based metric returns is an IEEE-754 binary64 number,   *)
(* modelled bit for bit as <<e, hi, lo>>: the 53-bit mantissa is           *)
(* hi * 2^27 + lo with 2^25 <= hi < 2^26, the value is                     *)
(* (hi * 2^27 + lo) * 2^(e - 52), and zero is <<0, 0, 0>>.  All values     *)
(* are non-negative and far from the exponent limits.  The value of        *)
(* seg_mean_iou_imasks_np is the fraction <<n, d>> its float is within a   *)
(* relative 2^-22 of.  An exception or a non-finite value is a tuple of    *)
(* one string.                                                             *)
(*                                                                         *)
(* Each family of properties has its own specification over the same       *)
(* variables: SpecSame, SpecSession, SpecVague, SpecBg, SpecHot and        *)
(* SpecRelabel call the metrics on different families of inputs,           *)
(* SpecAugment runs _augment, SpecPrep runs prepare_tf_context and         *)
(* prepare_model, SpecDataflow runs get_imagenet_dataflow.                 *)
(***************************************************************************)
EXTENDS Integers, Sequences, FiniteSets, TLC

VARIABLES
    arr,          \* the caller's arrays, one set for each of two runs a and b:
                  \* label_imask, pred_imask, label_hmask, pred_hmask
    n_classes,    \* the number of classes of the masks (num_classes)
    hist,         \* for each run the calls made, in order: the function, its
                  \* arguments besides the arrays, and the value returned
    img,          \* GoogleNetResize._augment: <<h, w>> of the input image
    trial,        \* the passes of its loop made so far
    aug_pc,       \* where it stands: "idle", "loop", "returned"
    crop,         \* the window [x1, y1, ww, hh] it cropped, or <<>>
    out,          \* the shape <<h, w>> of the image it returned, or an error
    pm,           \* prepare_model: its arguments, where it stands, its locals and
                  \* the calls it has made so far, in order
    ctx,          \* prepare_tf_context: the last call and the value it returned
    df            \* get_imagenet_dataflow: its arguments, where it stands, its
                  \* locals and the calls it has made so far, in order

metric_vars == <<arr, n_classes, hist>>

aug_vars == <<img, trial, aug_pc, crop, out>>

prep_vars == <<pm, ctx, df>>

vars == <<arr, n_classes, hist, img, trial, aug_pc, crop, out, pm, ctx, df>>

\* ------------------------------------------------------------------ bounds

MaxClasses == 3
MaxPixels == 4
MaxCalls == 2
MaxHotPixels == 3
MaxRelabelPixels == 5
MaxSideSteps == 1
SideStep == 200
MaxGpus == 4
MaxBatch == 32
MaxParallel == 17
MaxCpuSteps == 12
CpuStep == 8

\* ------------------------------------------------- binary64 arithmetic

HiBits == 26
LoBits == 27
MidBits == 14
LowBits == 13

Pow2Table ==
    <<1, 2, 4, 8, 16, 32, 64, 128, 256, 512, 1024, 2048, 4096, 8192, 16384, 32768,
      65536, 131072, 262144, 524288, 1048576, 2097152, 4194304, 8388608, 16777216,
      33554432, 67108864, 134217728, 268435456, 536870912, 1073741824>>

Pow2(n) == Pow2Table[n + 1]

FZero == <<0, 0, 0>>

FOne == <<0, Pow2(HiBits - 1), 0>>

BitLength(a) == IF a = 0 THEN 0 ELSE CHOOSE t \in 1..30 : Pow2(t - 1) <= a /\ a < Pow2(t)

\* float(a) for an integer 0 <= a < 2^26: exact
FromInt(a) ==
    IF a = 0 THEN FZero
    ELSE LET t == BitLength(a) IN <<t - 1, a * Pow2(HiBits - t), 0>>

FRoundUp(x) ==
    IF x[3] + 1 < Pow2(LoBits) THEN <<x[1], x[2], x[3] + 1>>
    ELSE IF x[2] + 1 < Pow2(HiBits) THEN <<x[1], x[2] + 1, 0>>
    ELSE <<x[1] + 1, Pow2(HiBits - 1), 0>>

\* round to nearest, ties to even.  rest describes the part cut off below the last
\* mantissa bit: 0 nothing, 1 less than half a unit, 2 exactly half, 3 more than half
FRound(x, rest) ==
    IF rest = 3 \/ (rest = 2 /\ x[3] % 2 = 1) THEN FRoundUp(x) ELSE x

FCmpHalf(f, half) ==
    IF f = 0 THEN 0 ELSE IF f < half THEN 1 ELSE IF f = half THEN 2 ELSE 3

\* <<hi, lo, rest>>: the mantissa of y shifted right by d bits, and what was cut off
FShiftRight(y, d) ==
    IF d = 0 THEN <<y[2], y[3], 0>>
    ELSE IF d < LoBits
    THEN LET p == Pow2(d)
         IN  <<y[2] \div p, (y[3] \div p) + (y[2] % p) * Pow2(LoBits - d),
               FCmpHalf(y[3] % p, p \div 2)>>
    ELSE IF d = LoBits
    THEN <<0, y[2], FCmpHalf(y[3], Pow2(LoBits - 1))>>
    ELSE IF d < HiBits + LoBits
    THEN LET q  == Pow2(d - LoBits)
             fh == y[2] % q
             hh == q \div 2
         IN  <<0, y[2] \div q,
               IF fh = 0 /\ y[3] = 0 THEN 0
               ELSE IF fh < hh THEN 1
               ELSE IF fh = hh /\ y[3] = 0 THEN 2
               ELSE 3>>
    ELSE IF d = HiBits + LoBits
    THEN <<0, 0, IF y[2] = Pow2(HiBits - 1) /\ y[3] = 0 THEN 2 ELSE 3>>
    ELSE <<0, 0, 1>>

\* x + y for exponents x[1] >= y[1]
FAddOrdered(x, y) ==
    LET s   == FShiftRight(y, x[1] - y[1])
        lo0 == x[3] + s[2]
        lo  == lo0 % Pow2(LoBits)
        hi  == x[2] + s[1] + (lo0 \div Pow2(LoBits))
    IN  IF hi < Pow2(HiBits)
        THEN FRound(<<x[1], hi, lo>>, s[3])
        ELSE FRound(<<x[1] + 1, hi \div 2, (lo \div 2) + (hi % 2) * Pow2(LoBits - 1)>>,
                    IF lo % 2 = 1 THEN (IF s[3] = 0 THEN 2 ELSE 3)
                    ELSE (IF s[3] = 0 THEN 0 ELSE 1))

\* the binary64 sum x + y
FAdd(x, y) ==
    IF x = FZero THEN y
    ELSE IF y = FZero THEN x
    ELSE IF x[1] >= y[1] THEN FAddOrdered(x, y) ELSE FAddOrdered(y, x)

\* the binary64 quotient x / k for an integer 0 < k < 2^14: the mantissa, extended
\* by j = BitLength(k) zero bits, is divided by k in four chunks (hi, the upper 14
\* bits of lo, its lower 13 bits, the j zero bits), then rounded once
FDivInt(x, k) ==
    IF x = FZero THEN FZero
    ELSE LET j  == BitLength(k)
             q1 == x[2] \div k
             r1 == x[2] % k
             d2 == r1 * Pow2(MidBits) + (x[3] \div Pow2(LowBits))
             q2 == d2 \div k
             r2 == d2 % k
             d3 == r2 * Pow2(LowBits) + (x[3] % Pow2(LowBits))
             q3 == d3 \div k
             r3 == d3 % k
             d4 == r3 * Pow2(j)
             q4 == d4 \div k
             r4 == d4 % k
             th == q1 * Pow2(j) + (q2 \div Pow2(MidBits - j))
             tl == (q2 % Pow2(MidBits - j)) * Pow2(LowBits + j) + q3 * Pow2(j) + q4
         IN  IF th < Pow2(HiBits)
             THEN FRound(<<x[1] - j, th, tl>>, FCmpHalf(2 * r4, k))
             ELSE FRound(<<x[1] - j + 1, th \div 2,
                           (tl \div 2) + (th % 2) * Pow2(LoBits - 1)>>,
                         IF tl % 2 = 1 THEN (IF r4 = 0 THEN 2 ELSE 3)
                         ELSE (IF r4 = 0 THEN 0 ELSE 1))

FLess(x, y) ==
    IF x = FZero THEN y # FZero
    ELSE IF y = FZero THEN FALSE
    ELSE \/ x[1] < y[1]
         \/ x[1] = y[1] /\ x[2] < y[2]
         \/ x[1] = y[1] /\ x[2] = y[2] /\ x[3] < y[3]

FLeq(x, y) == x = y \/ FLess(x, y)

\* what a division by zero gives: ZeroDivisionError for a Python int divisor, nan or
\* inf with a RuntimeWarning for a numpy integer divisor
DivisionByZero == <<"division by zero">>

\* Python's x / k for a float x and an integer k
TrueDiv(x, k) ==
    IF x = DivisionByZero \/ k = 0 THEN DivisionByZero ELSE FDivInt(x, k)

\* Python's x + y (acc_sum += class_acc); a non-finite operand stays
PyAdd(x, y) ==
    IF x = DivisionByZero \/ y = DivisionByZero THEN DivisionByZero ELSE FAdd(x, y)

\* --------------------------------------------------------- numpy helpers

RECURSIVE SumFrom(_, _)
SumFrom(a, k) == IF k > Len(a) THEN 0 ELSE a[k] + SumFrom(a, k + 1)

\* np.sum of a flat array (a boolean array counts as 0/1)
NpSum(a) == SumFrom(a, 1)

\* pred_imask == i, elementwise
EqScalar(a, i) == [k \in 1..Len(a) |-> IF a[k] = i THEN 1 ELSE 0]

\* a == b, elementwise
EqArray(a, b) == [k \in 1..Len(a) |-> IF a[k] = b[k] THEN 1 ELSE 0]

\* a != i, elementwise
NeScalar(a, i) == [k \in 1..Len(a) |-> IF a[k] # i THEN 1 ELSE 0]

\* np.logical_and(a, b)
LogicalAnd(a, b) == [k \in 1..Len(a) |-> IF a[k] # 0 /\ b[k] # 0 THEN 1 ELSE 0]

\* a * b, elementwise
Times(a, b) == [k \in 1..Len(a) |-> a[k] * b[k]]

\* a + 1, elementwise (the value a += 1 leaves in the array)
PlusOne(a) == [k \in 1..Len(a) |-> a[k] + 1]

\* the one-hot mask of an index mask: plane i + 1 is class i
OneHot(imask, n) == [i \in 1..n |-> EqScalar(imask, i - 1)]

\* ------------------------------------------------------ the metrics

\* seg_pixel_accuracy_np without the test of sum_u_ij against zero
PixelAccuracyNoZeroTest(label_imask, pred_imask, vague_idx, use_vague) ==
    IF use_vague
    THEN LET sum_u_ij == NpSum(NeScalar(label_imask, vague_idx))
             sum_u_ii == NpSum(LogicalAnd(EqArray(pred_imask, label_imask),
                                          NeScalar(label_imask, vague_idx)))
         IN  TrueDiv(FromInt(sum_u_ii), sum_u_ij)
    ELSE LET sum_u_ii == NpSum(EqArray(pred_imask, label_imask))
             sum_u_ij == Len(pred_imask)
         IN  TrueDiv(FromInt(sum_u_ii), sum_u_ij)

seg_pixel_accuracy_np(label_imask, pred_imask, vague_idx, use_vague) ==
    IF use_vague
    THEN LET sum_u_ij == NpSum(NeScalar(label_imask, vague_idx))
         IN  IF sum_u_ij = 0 THEN FZero
             ELSE LET sum_u_ii == NpSum(LogicalAnd(EqArray(pred_imask, label_imask),
                                                   NeScalar(label_imask, vague_idx)))
                  IN  TrueDiv(FromInt(sum_u_ii), sum_u_ij)
    ELSE LET sum_u_ii == NpSum(EqArray(pred_imask, label_imask))
             sum_u_ij == Len(pred_imask)
         IN  TrueDiv(FromInt(sum_u_ii), sum_u_ij)

\* mean_acc from the loop's i_sum and acc_sum
MeanOf(i_sum, acc_sum) == IF i_sum > 0 THEN TrueDiv(acc_sum, i_sum) ELSE FOne

\* one pass of the loop of the mean accuracy over class i
MeanAccuracyStep(class_i_label_mask, class_i_pred_mask, st) ==
    LET u_i == NpSum(class_i_label_mask)
    IN  IF u_i = 0 THEN st
        ELSE LET u_ii      == NpSum(LogicalAnd(class_i_pred_mask, class_i_label_mask))
                 class_acc == TrueDiv(FromInt(u_ii), u_i)
             IN  [i_sum |-> st.i_sum + 1, acc_sum |-> PyAdd(st.acc_sum, class_acc)]

\* MeanIouStep counting a class it skips among the classes averaged over
MeanIouStepCountsSkipped(class_i_label_mask, class_i_pred_mask, st) ==
    LET u_i     == NpSum(class_i_label_mask)
        u_ji_sj == NpSum(class_i_pred_mask)
    IN  IF u_i + u_ji_sj = 0 THEN [i_sum |-> st.i_sum + 1, acc_sum |-> st.acc_sum]
        ELSE LET u_ii == NpSum(LogicalAnd(class_i_pred_mask, class_i_label_mask))
             IN  [i_sum   |-> st.i_sum + 1,
                  acc_sum |-> PyAdd(st.acc_sum,
                                    TrueDiv(FromInt(u_ii), u_i + u_ji_sj - u_ii))]

\* MeanIouStep with the intersection left in the union twice
MeanIouStepUnionTwice(class_i_label_mask, class_i_pred_mask, st) ==
    LET u_i     == NpSum(class_i_label_mask)
        u_ji_sj == NpSum(class_i_pred_mask)
    IN  IF u_i + u_ji_sj = 0 THEN st
        ELSE LET u_ii == NpSum(LogicalAnd(class_i_pred_mask, class_i_label_mask))
             IN  [i_sum   |-> st.i_sum + 1,
                  acc_sum |-> PyAdd(st.acc_sum, TrueDiv(FromInt(u_ii), u_i + u_ji_sj))]

\* one pass of the loop of the mean IoU over class i
MeanIouStep(class_i_label_mask, class_i_pred_mask, st) ==
    LET u_i     == NpSum(class_i_label_mask)
        u_ji_sj == NpSum(class_i_pred_mask)
    IN  IF u_i + u_ji_sj = 0 THEN st
        ELSE LET u_ii == NpSum(LogicalAnd(class_i_pred_mask, class_i_label_mask))
             IN  [i_sum   |-> st.i_sum + 1,
                  acc_sum |-> PyAdd(st.acc_sum,
                                    TrueDiv(FromInt(u_ii), u_i + u_ji_sj - u_ii))]

\* one pass of the loop of the frequency weighted IoU over class i
FwIouStep(class_i_label_mask, class_i_pred_mask, acc_iou) ==
    LET u_i     == NpSum(class_i_label_mask)
        u_ji_sj == NpSum(class_i_pred_mask)
    IN  IF u_i + u_ji_sj = 0 THEN acc_iou
        ELSE LET u_ii == NpSum(LogicalAnd(class_i_pred_mask, class_i_label_mask))
             IN  PyAdd(acc_iou, TrueDiv(FromInt(u_i * u_ii), u_i + u_ji_sj - u_ii))

StartOfLoop == [i_sum |-> 0, acc_sum |-> FZero]

RECURSIVE MeanAccuracyHmasksLoop(_, _, _, _)
MeanAccuracyHmasksLoop(label_hmask, pred_hmask, i, st) ==
    IF i = Len(label_hmask) THEN st
    ELSE MeanAccuracyHmasksLoop(label_hmask, pred_hmask, i + 1,
             MeanAccuracyStep(label_hmask[i + 1], pred_hmask[i + 1], st))

segm_mean_accuracy_hmasks(label_hmask, pred_hmask) ==
    LET st == MeanAccuracyHmasksLoop(label_hmask, pred_hmask, 0, StartOfLoop)
    IN  MeanOf(st.i_sum, st.acc_sum)

\* MeanAccuracyLoop taking class 0 for a background that is not scored
RECURSIVE MeanAccuracyLoopSkipBackground(_, _, _, _)
MeanAccuracyLoopSkipBackground(label_hmask, pred_imask, i, st) ==
    IF i >= Len(label_hmask) THEN st
    ELSE IF i = 0 THEN MeanAccuracyLoopSkipBackground(label_hmask, pred_imask, 1, st)
    ELSE MeanAccuracyLoopSkipBackground(label_hmask, pred_imask, i + 1,
             MeanAccuracyStep(label_hmask[i + 1], EqScalar(pred_imask, i), st))

RECURSIVE MeanAccuracyLoop(_, _, _, _)
MeanAccuracyLoop(label_hmask, pred_imask, i, st) ==
    IF i = Len(label_hmask) THEN st
    ELSE MeanAccuracyLoop(label_hmask, pred_imask, i + 1,
             MeanAccuracyStep(label_hmask[i + 1], EqScalar(pred_imask, i), st))

segm_mean_accuracy(label_hmask, pred_imask) ==
    LET st == MeanAccuracyLoop(label_hmask, pred_imask, 0, StartOfLoop)
    IN  MeanOf(st.i_sum, st.acc_sum)

\* the source's segm_mean_iou_imasks repeats segm_mean_accuracy_hmasks line by line
segm_mean_iou_imasks(label_hmask, pred_hmask) ==
    LET st == MeanAccuracyHmasksLoop(label_hmask, pred_hmask, 0, StartOfLoop)
    IN  MeanOf(st.i_sum, st.acc_sum)

RECURSIVE MeanIouLoop(_, _, _, _)
MeanIouLoop(label_hmask, pred_imask, i, st) ==
    IF i = Len(label_hmask) THEN st
    ELSE MeanIouLoop(label_hmask, pred_imask, i + 1,
             MeanIouStep(label_hmask[i + 1], EqScalar(pred_imask, i), st))

seg_mean_iou_np(label_hmask, pred_imask) ==
    LET st == MeanIouLoop(label_hmask, pred_imask, 0, StartOfLoop)
    IN  MeanOf(st.i_sum, st.acc_sum)

RECURSIVE FwIouHmasksLoop(_, _, _, _)
FwIouHmasksLoop(label_hmask, pred_hmask, i, acc_iou) ==
    IF i = Len(label_hmask) THEN acc_iou
    ELSE FwIouHmasksLoop(label_hmask, pred_hmask, i + 1,
             FwIouStep(label_hmask[i + 1], pred_hmask[i + 1], acc_iou))

segm_fw_iou_hmasks(label_hmask, pred_hmask) ==
    LET acc_iou   == FwIouHmasksLoop(label_hmask, pred_hmask, 0, FZero)
        fw_factor == Len(pred_hmask[1])
    IN  TrueDiv(acc_iou, fw_factor)

RECURSIVE FwIouLoop(_, _, _, _)
FwIouLoop(label_hmask, pred_imask, i, acc_iou) ==
    IF i = Len(label_hmask) THEN acc_iou
    ELSE FwIouLoop(label_hmask, pred_imask, i + 1,
             FwIouStep(label_hmask[i + 1], EqScalar(pred_imask, i), acc_iou))

segm_fw_iou(label_hmask, pred_imask) ==
    LET acc_iou   == FwIouLoop(label_hmask, pred_imask, 0, FZero)
        fw_factor == Len(pred_imask)
    IN  TrueDiv(acc_iou, fw_factor)

\* ---------------------------------------- seg_mean_iou_imasks_np

\* np.histogram raises ValueError for bins < 1 and for range max < min
ValueError == <<"ValueError">>

\* np.histogram's outer edges, doubled to stay in the integers: a range of zero
\* width (mini = maxi) is widened by 0.5 on both sides
Edges2(mini, maxi) ==
    IF mini = maxi THEN <<2 * mini - 1, 2 * maxi + 1>> ELSE <<2 * mini, 2 * maxi>>

\* the bin of value v among nbins equal bins over the range, the last bin closed;
\* 0 for a value outside the range (bins are numbered from 1)
BinOf(v, nbins, mini, maxi) ==
    LET e == Edges2(mini, maxi)
    IN  IF 2 * v < e[1] \/ 2 * v > e[2] THEN 0
        ELSE LET idx == ((2 * v - e[1]) * nbins) \div (e[2] - e[1])
             IN  IF idx = nbins THEN nbins ELSE idx + 1

\* np.histogram(a, bins=nbins, range=(mini, maxi))[0]
Histogram(a, nbins, mini, maxi) ==
    IF nbins < 1 \/ maxi < mini THEN ValueError
    ELSE [b \in 1..nbins |->
             Cardinality({k \in 1..Len(a) : BinOf(a[k], nbins, mini, maxi) = b})]

RECURSIVE Gcd(_, _)
Gcd(a, b) == IF b = 0 THEN a ELSE Gcd(b, a % b)

\* the fraction n / d in lowest terms, as <<n, d>>
Rat(n, d) == IF n = 0 THEN <<0, 1>> ELSE <<n \div Gcd(n, d), d \div Gcd(n, d)>>

RatAdd(x, y) == Rat(x[1] * y[2] + y[1] * x[2], x[2] * y[2])

\* area_inter / (area_union + eps) for one bin, eps = np.finfo(np.float32).eps =
\* 2^-23: exactly 0 when the intersection is empty (0 / eps included), and
\* otherwise the fraction the float is below by a factor of less than 1 + 2^-23
IouOfBin(inter, union) == IF inter = 0 THEN <<0, 1>> ELSE Rat(inter, union)

RECURSIVE SumOfBins(_, _, _)
SumOfBins(area_inter, area_union, b) ==
    IF b > Len(area_inter) THEN <<0, 1>>
    ELSE RatAdd(IouOfBin(area_inter[b], area_union[b]),
                SumOfBins(area_inter, area_union, b + 1))

\* MeanOfBins taking the mean over the bins that are not empty only
MeanOfBinsSkipEmpty(area_inter, area_union) ==
    LET t == SumOfBins(area_inter, area_union, 1)
        n == Cardinality({b \in 1..Len(area_union) : area_union[b] > 0})
    IN  IF n = 0 THEN <<1, 1>> ELSE Rat(t[1], t[2] * n)

\* (area_inter / area_union).mean(), as the fraction it is within 2^-22 of
MeanOfBins(area_inter, area_union) ==
    LET t == SumOfBins(area_inter, area_union, 1)
    IN  Rat(t[1], t[2] * Len(area_inter))

\* BinnedArrays with the prediction left as it is where the label is background
BinnedArraysKeepBackground(label_imask, pred_imask, ignore_bg) ==
    IF ignore_bg
    THEN <<Times(pred_imask, EqArray(pred_imask, label_imask)), pred_imask, label_imask>>
    ELSE LET label == PlusOne(label_imask)
             pred  == PlusOne(pred_imask)
         IN  <<Times(pred, EqArray(pred, label)), pred, label>>

\* the arrays the three histograms are taken of: <<intersection, pred_imask,
\* label_imask>> as the function's local names hold them at that point
BinnedArrays(label_imask, pred_imask, ignore_bg) ==
    IF ignore_bg
    THEN LET pred == Times(pred_imask, [k \in 1..Len(label_imask) |->
                                           IF label_imask[k] > 0 THEN 1 ELSE 0])
         IN  <<Times(pred, EqArray(pred, label_imask)), pred, label_imask>>
    ELSE LET label == PlusOne(label_imask)
             pred1 == PlusOne(pred_imask)
             pred  == IF \E k \in 1..Len(label) : label[k] < 0
                      THEN Times(pred1, [k \in 1..Len(label) |->
                                            IF label[k] >= 0 THEN 1 ELSE 0])
                      ELSE pred1
         IN  <<Times(pred, EqArray(pred, label)), pred, label>>

\* <<area_inter, area_pred, area_label>>, or ValueError
Areas(label_imask, pred_imask, num_classes, ignore_bg) ==
    LET mini  == 1
        maxi  == IF ignore_bg THEN num_classes - 1 ELSE num_classes
        nbins == IF ignore_bg THEN num_classes - 1 ELSE num_classes
        a     == BinnedArrays(label_imask, pred_imask, ignore_bg)
    IN  IF nbins < 1 \/ maxi < mini THEN ValueError
        ELSE <<Histogram(a[1], nbins, mini, maxi), Histogram(a[2], nbins, mini, maxi),
               Histogram(a[3], nbins, mini, maxi)>>

\* the value returned, and the caller's two arrays as the call leaves them:
\* label_imask += 1 and pred_imask += 1 write into the arrays passed in, every
\* other assignment binds a new array to the local name
seg_mean_iou_imasks_np(label_imask, pred_imask, num_classes, ignore_bg) ==
    LET ar == Areas(label_imask, pred_imask, num_classes, ignore_bg)
    IN  [ret         |-> IF ar = ValueError THEN ValueError
                         ELSE MeanOfBins(ar[1], [b \in 1..Len(ar[1]) |->
                                                    ar[2][b] + ar[3][b] - ar[1][b]]),
         label_imask |-> IF ignore_bg THEN label_imask ELSE PlusOne(label_imask),
         pred_imask  |-> IF ignore_bg THEN pred_imask ELSE PlusOne(pred_imask)]

\* ------------------------------------------- GoogleNetResize._augment

\* the defaults of GoogleNetResize.__init__; the fractions as <<numerator, denominator>>
crop_area_fraction == <<2, 25>>
aspect_ratio_low == <<3, 4>>
aspect_ratio_high == <<1333, 1000>>
target_shape == 224

\* the passes of the loop: range(10)
MaxAttempts == 10

\* floor(a * n / d) without leaving 32 bits
MulDiv(a, n, d) == (a \div d) * n + ((a % d) * n) \div d

\* floor(sqrt(x)), for x below the square of three times the largest image side
ISqrt(x) ==
    CHOOSE t \in 0..(3 * (target_shape + (MaxSideSteps + 1) * SideStep)) :
        t * t <= x /\ x < (t + 1) * (t + 1)

\* int(np.sqrt(area * num / den) + 0.5): the m with (2m - 1)^2 <= 4 area num / den
\* < (2m + 1)^2
RoundedSqrt(area, num, den) == (ISqrt(MulDiv(4 * area, num, den)) + 1) \div 2

\* ww and hh before the swap, for rng.uniform(crop_area_fraction, 1.0) = f and
\* rng.uniform(aspect_ratio_low, aspect_ratio_high) = r
CropSize(area, f, r) ==
    <<RoundedSqrt(area, f[1] * r[1], f[2] * r[2]), RoundedSqrt(area, f[1] * r[2], f[2] * r[1])>>

\* Fits with the sides of the image taken the wrong way round
FitsSidesSwapped(hh, ww, h, w) == hh <= w /\ ww <= h

\* the test that the window fits the image
Fits(hh, ww, h, w) == hh <= h /\ ww <= w

\* what rng.randint(low, high) may give, high excluded: the least, the middle and
\* the greatest value
Randint(low, high) == {low, (low + high - 1) \div 2, high - 1}

\* the length of the slice lo:hi of an axis of n entries, 0 <= lo <= hi
SliceLen(lo, hi, n) ==
    (IF hi < n THEN hi ELSE n) - (IF lo < n THEN lo ELSE n)

\* the shape cv2.resize returns, or the error it raises for an empty image
Cv2Resize(shape, dsize) ==
    IF shape[1] > 0 /\ shape[2] > 0 THEN dsize ELSE <<"cv2.error">>

\* tensorpack's imgaug.ResizeShortestEdge(size): the shape of the image resized so
\* that its shorter side is size, the other side scaled alike and rounded
ResizeShortestEdge(shape, size) ==
    LET h == shape[1]
        w == shape[2]
    IN  IF h < w THEN <<size, (2 * size * w + h) \div (2 * h)>>
        ELSE <<(2 * size * h + w) \div (2 * w), size>>

\* tensorpack's imgaug.CenterCrop(size): the shape of the central size x size window
CenterCrop(shape, size) ==
    LET h0 == (shape[1] - size) \div 2
        w0 == (shape[2] - size) \div 2
    IN  <<SliceLen(h0, h0 + size, shape[1]), SliceLen(w0, w0 + size, shape[2])>>

\* the values the draws are taken from: the ends and the inside of
\* [crop_area_fraction, 1.0) and of [aspect_ratio_low, aspect_ratio_high)
AreaFractions == {crop_area_fraction, <<1, 4>>, <<1, 2>>, <<3, 4>>, <<99, 100>>}

AspectRatios == {aspect_ratio_low, <<1, 1>>, <<133, 100>>}

\* the image sides: target_shape and larger
ImageSides == {target_shape + k * SideStep : k \in 0..MaxSideSteps}

\* one pass of the loop: the window is drawn, and if it fits the image it is cut
\* out, resized and returned
AugmentAttempt ==
    /\ aug_pc = "loop"
    /\ trial < MaxAttempts
    /\ \E f \in AreaFractions, r \in AspectRatios, swap \in BOOLEAN :
          LET h    == img[1]
              w    == img[2]
              area == h * w
              size == CropSize(area, f, r)
              ww   == IF swap THEN size[2] ELSE size[1]
              hh   == IF swap THEN size[1] ELSE size[2]
          IN  /\ trial' = trial + 1
              /\ IF Fits(hh, ww, h, w)
                 THEN \E x1 \in (IF w = ww THEN {0} ELSE Randint(0, w - ww)),
                         y1 \in (IF h = hh THEN {0} ELSE Randint(0, h - hh)) :
                          /\ crop' = <<x1, y1, ww, hh>>
                          /\ out' = Cv2Resize(<<SliceLen(y1, y1 + hh, h),
                                                SliceLen(x1, x1 + ww, w)>>,
                                              <<target_shape, target_shape>>)
                          /\ aug_pc' = "returned"
                 ELSE UNCHANGED <<crop, out, aug_pc>>
    /\ UNCHANGED <<img, metric_vars, prep_vars>>

\* after the last pass: the shortest edge is resized to target_shape and the centre
\* is cut out
AugmentFallback ==
    /\ aug_pc = "loop"
    /\ trial = MaxAttempts
    /\ out' = CenterCrop(ResizeShortestEdge(img, target_shape), target_shape)
    /\ aug_pc' = "returned"
    /\ UNCHANGED <<img, trial, crop, metric_vars, prep_vars>>

\* ------------------------------------------------ get_imagenet_dataflow

\* the cap of the default parallelism, and the parallelism below which the
\* training path warns
DefaultParallelCap == 40
BottleneckBelow == 16

\* Bottleneck warning already at the limit itself
BottleneckAtLimit(parallel) == parallel <= BottleneckBelow

\* if parallel < 16
Bottleneck(parallel) == parallel < BottleneckBelow

\* min(40, multiprocessing.cpu_count() // 2)
DefaultParallel(cpu_count) ==
    IF DefaultParallelCap <= cpu_count \div 2 THEN DefaultParallelCap ELSE cpu_count \div 2

\* the parallel argument: <<>> is None (not given), <<p>> the value p
ParallelArgs == {<<>>} \cup {<<p>> : p \in 1..MaxParallel}

\* multiprocessing.cpu_count() of the machine
CpuCounts == {2} \cup {k * CpuStep : k \in 1..MaxCpuSteps}

DataflowBatchSizes == {32, 256}

DfIdle ==
    [pc |-> "idle", is_train |-> FALSE, batch_size |-> 0, parallel_arg |-> <<>>,
     cpu_count |-> 0, parallel |-> 0, ds |-> <<>>, effects |-> <<>>, ret |-> <<>>]

\* get_imagenet_dataflow is called, with a datadir and a list of augmentors
DataflowCall ==
    /\ df.pc = "idle"
    /\ \E is_train \in BOOLEAN, batch_size \in DataflowBatchSizes,
          parallel_arg \in ParallelArgs, cpu_count \in CpuCounts :
          df' = [df EXCEPT !.pc = "parallel", !.is_train = is_train,
                           !.batch_size = batch_size, !.parallel_arg = parallel_arg,
                           !.cpu_count = cpu_count]
    /\ UNCHANGED <<pm, ctx, metric_vars, aug_vars>>

\* if parallel is None: parallel = min(40, multiprocessing.cpu_count() // 2)
\* if is_train: ... else: ...
DataflowParallel ==
    /\ df.pc = "parallel"
    /\ df' = [df EXCEPT !.pc = IF df.is_train THEN "train" ELSE "val",
                        !.parallel = IF df.parallel_arg = <<>>
                                     THEN DefaultParallel(df.cpu_count)
                                     ELSE df.parallel_arg[1]]
    /\ UNCHANGED <<pm, ctx, metric_vars, aug_vars>>

\* ds = dataset.ILSVRC12(datadir, 'train', shuffle=True)
\* ds = AugmentImageComponent(ds, augmentors, copy=False)
DataflowTrainSource ==
    /\ df.pc = "train"
    /\ df' = [df EXCEPT !.pc = "warn",
                        !.ds = <<<<"ILSVRC12", "train">>, <<"AugmentImageComponent">>>>,
                        !.effects = @ \o <<"ILSVRC12", "AugmentImageComponent">>]
    /\ UNCHANGED <<pm, ctx, metric_vars, aug_vars>>

\* if parallel < 16: logging.warning(...)
DataflowTrainWarn ==
    /\ df.pc = "warn"
    /\ df' = [df EXCEPT !.pc = "prefetch",
                        !.effects = IF Bottleneck(df.parallel)
                                    THEN Append(@, "logging.warning") ELSE @]
    /\ UNCHANGED <<pm, ctx, metric_vars, aug_vars>>

\* ds = PrefetchDataZMQ(ds, parallel)
\* ds = BatchData(ds, batch_size, remainder=False)
DataflowTrainPrefetch ==
    /\ df.pc = "prefetch"
    /\ df' = [df EXCEPT !.pc = "return",
                        !.ds = @ \o <<<<"PrefetchDataZMQ", df.parallel>>,
                                      <<"BatchData", df.batch_size, FALSE>>>>,
                        !.effects = @ \o <<"PrefetchDataZMQ", "BatchData">>]
    /\ UNCHANGED <<pm, ctx, metric_vars, aug_vars>>

\* ds = dataset.ILSVRC12Files(datadir, 'val', shuffle=False)
\* aug = imgaug.AugmentorList(augmentors)
DataflowValSource ==
    /\ df.pc = "val"
    /\ df' = [df EXCEPT !.pc = "map",
                        !.ds = <<<<"ILSVRC12Files", "val">>>>,
                        !.effects = @ \o <<"ILSVRC12Files", "AugmentorList">>]
    /\ UNCHANGED <<pm, ctx, metric_vars, aug_vars>>

\* ds = MultiThreadMapData(ds, parallel, mapf, buffer_size=2000, strict=True)
\* ds = BatchData(ds, batch_size, remainder=True)
\* ds = PrefetchDataZMQ(ds, 1)
DataflowValMap ==
    /\ df.pc = "map"
    /\ df' = [df EXCEPT !.pc = "return",
                        !.ds = @ \o <<<<"MultiThreadMapData", df.parallel>>,
                                      <<"BatchData", df.batch_size, TRUE>>,
                                      <<"PrefetchDataZMQ", 1>>>>,
                        !.effects = @ \o <<"MultiThreadMapData", "BatchData",
                                           "PrefetchDataZMQ">>]
    /\ UNCHANGED <<pm, ctx, metric_vars, aug_vars>>

\* return ds
DataflowReturn ==
    /\ df.pc = "return"
    /\ df' = [df EXCEPT !.pc = "returned", !.ret = df.ds]
    /\ UNCHANGED <<pm, ctx, metric_vars, aug_vars>>

\* ------------------------------------ prepare_tf_context, prepare_model

\* Max with no minimum of one accelerator
MaxOfSecond(a, b) == b

Max(a, b) == IF a >= b THEN a ELSE b

prepare_tf_context(num_gpus, batch_size) == batch_size * Max(1, num_gpus)

GpuCounts == (0 - MaxGpus)..MaxGpus

BatchSizes == (0 - 1)..MaxBatch

CtxIdle == [called |-> FALSE, num_gpus |-> 0, batch_size |-> 0, ret |-> 0]

CallPrepareTfContext ==
    /\ \E num_gpus \in GpuCounts, batch_size \in BatchSizes :
          ctx' = [called |-> TRUE, num_gpus |-> num_gpus, batch_size |-> batch_size,
                  ret |-> prepare_tf_context(num_gpus, batch_size)]
    /\ UNCHANGED <<pm, df, metric_vars, aug_vars>>

\* the arguments prepare_model is called with, and the files that exist
ModelNames == {"resnet18", "mobilenet_w1"}

ClassCounts == {10, 1000}

Paths == {"", "missing.npz", "weights.npz"}

ExistingFiles == {"weights.npz"}

PmIdle ==
    [pc |-> "idle", model_name |-> "", classes |-> 0, use_pretrained |-> FALSE,
     pretrained_model_file_path |-> "", net |-> <<>>, inputs_desc |-> <<>>,
     effects |-> <<>>, ret |-> <<>>]

\* prepare_model is called
PrepareModelCall ==
    /\ pm.pc = "idle"
    /\ \E model_name \in ModelNames, classes \in ClassCounts, use_pretrained \in BOOLEAN,
          path \in Paths :
          pm' = [pm EXCEPT !.pc = "get_model", !.model_name = model_name,
                           !.classes = classes, !.use_pretrained = use_pretrained,
                           !.pretrained_model_file_path = path]
    /\ UNCHANGED <<ctx, df, metric_vars, aug_vars>>

\* net = get_model(model_name, **kwargs)
PrepareModelGetModel ==
    /\ pm.pc = "get_model"
    /\ pm' = [pm EXCEPT !.pc = "wrap",
                        !.net = <<"get_model", pm.model_name, pm.classes, pm.use_pretrained>>,
                        !.effects = Append(@, "get_model")]
    /\ UNCHANGED <<ctx, df, metric_vars, aug_vars>>

\* net = ImageNetModel(model_lambda=net)
PrepareModelWrap ==
    /\ pm.pc = "wrap"
    /\ pm' = [pm EXCEPT !.pc = "check", !.net = <<"ImageNetModel", pm.net>>,
                        !.effects = Append(@, "ImageNetModel")]
    /\ UNCHANGED <<ctx, df, metric_vars, aug_vars>>

\* PathChecked with no assertion (python -O)
PathCheckedNoAssert(path) == IF path = "" THEN "return" ELSE "log"

\* where the test of the path and the assertion lead
PathChecked(path) ==
    IF path = "" THEN "return"
    ELSE IF path \notin ExistingFiles THEN "raised"
    ELSE "log"

\* if pretrained_model_file_path: assert (os.path.isfile(...))
PrepareModelCheck ==
    /\ pm.pc = "check"
    /\ pm' = [pm EXCEPT !.pc = PathChecked(pm.pretrained_model_file_path),
                        !.ret = IF PathChecked(pm.pretrained_model_file_path) = "raised"
                                THEN <<"AssertionError">> ELSE @]
    /\ UNCHANGED <<ctx, df, metric_vars, aug_vars>>

\* logging.info('Loading model: ...')
PrepareModelLog ==
    /\ pm.pc = "log"
    /\ pm' = [pm EXCEPT !.pc = "load", !.effects = Append(@, "logging.info")]
    /\ UNCHANGED <<ctx, df, metric_vars, aug_vars>>

\* inputs_desc = get_model_loader(pretrained_model_file_path)
PrepareModelLoad ==
    /\ pm.pc = "load"
    /\ pm' = [pm EXCEPT !.pc = "return",
                        !.inputs_desc = <<"get_model_loader", pm.pretrained_model_file_path>>,
                        !.effects = Append(@, "get_model_loader")]
    /\ UNCHANGED <<ctx, df, metric_vars, aug_vars>>

\* return net, inputs_desc
PrepareModelReturn ==
    /\ pm.pc = "return"
    /\ pm' = [pm EXCEPT !.pc = "returned", !.ret = <<pm.net, pm.inputs_desc>>]
    /\ UNCHANGED <<ctx, df, metric_vars, aug_vars>>

\* ------------------------------------------- the caller of the metrics

Runs == {"a", "b"}

\* vague_idx as callers pass it: the default -1, and a class index
VagueIdxs == {-1, 0}

Arrays(label_imask, pred_imask, label_hmask, pred_hmask) ==
    [label_imask |-> label_imask, pred_imask |-> pred_imask,
     label_hmask |-> label_hmask, pred_hmask |-> pred_hmask]

\* the calls of run r with one more: function, arguments, value returned
Logged(r, name, args, ret) ==
    [hist EXCEPT ![r] = Append(@, [fn |-> name, args |-> args, ret |-> ret])]

\* a caller makes at most lim calls on the arrays of a run
CallSegPixelAccuracy(r, lim) ==
    \E vague_idx \in VagueIdxs, use_vague \in BOOLEAN :
        /\ Len(hist[r]) < lim
        /\ hist' = Logged(r, "seg_pixel_accuracy_np", <<vague_idx, use_vague>>,
                          seg_pixel_accuracy_np(arr[r].label_imask, arr[r].pred_imask,
                                                vague_idx, use_vague))
        /\ UNCHANGED <<arr, n_classes, aug_vars, prep_vars>>

CallSegmMeanAccuracyHmasks(r, lim) ==
    /\ Len(hist[r]) < lim
    /\ hist' = Logged(r, "segm_mean_accuracy_hmasks", <<>>,
                      segm_mean_accuracy_hmasks(arr[r].label_hmask, arr[r].pred_hmask))
    /\ UNCHANGED <<arr, n_classes, aug_vars, prep_vars>>

CallSegmMeanAccuracy(r, lim) ==
    /\ Len(hist[r]) < lim
    /\ hist' = Logged(r, "segm_mean_accuracy", <<>>,
                      segm_mean_accuracy(arr[r].label_hmask, arr[r].pred_imask))
    /\ UNCHANGED <<arr, n_classes, aug_vars, prep_vars>>

CallSegmMeanIouImasks(r, lim) ==
    /\ Len(hist[r]) < lim
    /\ hist' = Logged(r, "segm_mean_iou_imasks", <<>>,
                      segm_mean_iou_imasks(arr[r].label_hmask, arr[r].pred_hmask))
    /\ UNCHANGED <<arr, n_classes, aug_vars, prep_vars>>

CallSegMeanIouNp(r, lim) ==
    /\ Len(hist[r]) < lim
    /\ hist' = Logged(r, "seg_mean_iou_np", <<>>,
                      seg_mean_iou_np(arr[r].label_hmask, arr[r].pred_imask))
    /\ UNCHANGED <<arr, n_classes, aug_vars, prep_vars>>

CallSegmFwIouHmasks(r, lim) ==
    /\ Len(hist[r]) < lim
    /\ hist' = Logged(r, "segm_fw_iou_hmasks", <<>>,
                      segm_fw_iou_hmasks(arr[r].label_hmask, arr[r].pred_hmask))
    /\ UNCHANGED <<arr, n_classes, aug_vars, prep_vars>>

CallSegmFwIou(r, lim) ==
    /\ Len(hist[r]) < lim
    /\ hist' = Logged(r, "segm_fw_iou", <<>>,
                      segm_fw_iou(arr[r].label_hmask, arr[r].pred_imask))
    /\ UNCHANGED <<arr, n_classes, aug_vars, prep_vars>>

CallSegMeanIouImasksNp(r, lim, ignore_bg) ==
    LET res == seg_mean_iou_imasks_np(arr[r].label_imask, arr[r].pred_imask,
                                      n_classes, ignore_bg)
    IN  /\ Len(hist[r]) < lim
        /\ hist' = Logged(r, "seg_mean_iou_imasks_np", <<n_classes, ignore_bg>>, res.ret)
        /\ arr' = [arr EXCEPT ![r].label_imask = res.label_imask,
                              ![r].pred_imask = res.pred_imask]
        /\ UNCHANGED <<n_classes, aug_vars, prep_vars>>

\* any one call on the arrays of run r
CallAny(r, lim) ==
    \/ CallSegPixelAccuracy(r, lim)
    \/ CallSegmMeanAccuracyHmasks(r, lim)
    \/ CallSegmMeanAccuracy(r, lim)
    \/ CallSegmMeanIouImasks(r, lim)
    \/ CallSegMeanIouNp(r, lim)
    \/ CallSegmFwIouHmasks(r, lim)
    \/ CallSegmFwIou(r, lim)
    \/ \E ignore_bg \in BOOLEAN : CallSegMeanIouImasksNp(r, lim, ignore_bg)

NoCalls == [r \in Runs |-> <<>>]

\* the parts of the state a specification of another component leaves alone
NoAugment ==
    img = <<0, 0>> /\ trial = 0 /\ aug_pc = "idle" /\ crop = <<>> /\ out = <<>>

NoPrep == pm = PmIdle /\ ctx = CtxIdle /\ df = DfIdle

NoMetrics ==
    /\ n_classes = 1
    /\ arr = [r \in Runs |-> Arrays(<<0>>, <<0>>, <<<<1>>>>, <<<<1>>>>)]
    /\ hist = NoCalls

\* index masks of n classes: 1..MaxPixels pixels, each a class in lo..n-1
IndexMasks(lo, n) == UNION {[1..p -> lo..(n - 1)] : p \in 1..MaxPixels}

\* The prediction equals a well-formed label mask: every pixel in exactly one class,
\* no vague pixel, the prediction a separate array with the same values.
InitSame ==
    /\ n_classes \in 1..MaxClasses
    /\ \E label \in IndexMasks(0, n_classes) :
          arr = [r \in Runs |-> Arrays(label, label, OneHot(label, n_classes),
                                       OneHot(label, n_classes))]
    /\ hist = NoCalls
    /\ NoAugment /\ NoPrep

\* one call on fresh arrays
NextSame == CallAny("a", 1)

SpecSame == InitSame /\ [][NextSame]_vars

\* Any label and prediction index masks of the same shape, and their one-hot forms.
\* Run b holds a copy of the arrays that no call is made on.
InitSession ==
    /\ n_classes \in 1..MaxClasses
    /\ \E p \in 1..MaxPixels :
          \E label \in [1..p -> 0..(n_classes - 1)], pred \in [1..p -> 0..(n_classes - 1)] :
              arr = [r \in Runs |-> Arrays(label, pred, OneHot(label, n_classes),
                                           OneHot(pred, n_classes))]
    /\ hist = NoCalls
    /\ NoAugment /\ NoPrep

\* a sequence of calls on the same arrays
NextSession == CallAny("a", MaxCalls)

SpecSession == InitSession /\ [][NextSession]_vars

\* A label mask with vague pixels (-1) and any prediction of the same shape.
InitVague ==
    /\ n_classes \in 1..MaxClasses
    /\ \E p \in 1..MaxPixels :
          \E label \in [1..p -> -1..(n_classes - 1)], pred \in [1..p -> 0..(n_classes - 1)] :
              arr = [r \in Runs |-> Arrays(label, pred, OneHot(label, n_classes),
                                           OneHot(pred, n_classes))]
    /\ hist = NoCalls
    /\ NoAugment /\ NoPrep

NextVague == CallSegPixelAccuracy("a", 1)

SpecVague == InitVague /\ [][NextVague]_vars

\* One label mask and two predictions, of runs a and b, that agree wherever the
\* label is not background (class 0) and are any class where it is.
InitBg ==
    /\ n_classes \in 1..MaxClasses
    /\ \E p \in 1..MaxPixels :
          \E label \in [1..p -> 0..(n_classes - 1)],
             pred_a \in [1..p -> 0..(n_classes - 1)],
             pred_b \in [1..p -> 0..(n_classes - 1)] :
              /\ \A k \in 1..p : label[k] > 0 => pred_a[k] = pred_b[k]
              /\ arr = [r \in Runs |->
                           LET pred == IF r = "a" THEN pred_a ELSE pred_b
                           IN  Arrays(label, pred, OneHot(label, n_classes),
                                      OneHot(pred, n_classes))]
    /\ hist = NoCalls
    /\ NoAugment /\ NoPrep

NextBg == \E r \in Runs : CallSegMeanIouImasksNp(r, 1, TRUE)

SpecBg == InitBg /\ [][NextBg]_vars

\* Any one-hot label mask of 0/1 planes, well-formed or not (a pixel may be in no
\* class or in several), and any prediction, a pixel of it possibly in no class (-1).
InitHot ==
    /\ n_classes \in 1..MaxClasses
    /\ \E p \in 1..MaxHotPixels :
          \E label_hmask \in [1..n_classes -> [1..p -> 0..1]],
             pred \in [1..p -> -1..(n_classes - 1)] :
              arr = [r \in Runs |-> Arrays([k \in 1..p |-> -1], pred, label_hmask,
                                           OneHot(pred, n_classes))]
    /\ hist = NoCalls
    /\ NoAugment /\ NoPrep

NextHot ==
    \/ CallSegmMeanAccuracy("a", 1)
    \/ CallSegMeanIouNp("a", 1)

SpecHot == InitHot /\ [][NextHot]_vars

\* the permutations of the class indices 0..n-1
Perms(n) ==
    {q \in [0..(n - 1) -> 0..(n - 1)] : \A i, j \in 0..(n - 1) : q[i] = q[j] => i = j}

\* the arrays a relabelled by q: class plane i becomes plane q[i], index i becomes q[i]
Relabelled(a, q) ==
    Arrays([k \in 1..Len(a.label_imask) |-> q[a.label_imask[k]]],
           [k \in 1..Len(a.pred_imask) |-> q[a.pred_imask[k]]],
           [j \in 1..Len(a.label_hmask) |->
               a.label_hmask[(CHOOSE i \in DOMAIN q : q[i] = j - 1) + 1]],
           [j \in 1..Len(a.pred_hmask) |->
               a.pred_hmask[(CHOOSE i \in DOMAIN q : q[i] = j - 1) + 1]])

\* Run a holds a well-formed label mask and any prediction, run b the same
\* relabelled by a permutation of the classes.  The metrics read the pixels only
\* through counts, so the label is enumerated with its pixels in order of class.
InitRelabel ==
    /\ n_classes \in 1..MaxClasses
    /\ \E p \in 1..MaxRelabelPixels :
          \E label \in [1..p -> 0..(n_classes - 1)], pred \in [1..p -> 0..(n_classes - 1)],
             q \in Perms(n_classes) :
              /\ \A k \in 1..(p - 1) : label[k] <= label[k + 1]
              /\ arr = [r \in Runs |->
                           LET a == Arrays(label, pred, OneHot(label, n_classes),
                                           OneHot(pred, n_classes))
                           IN  IF r = "a" THEN a ELSE Relabelled(a, q)]
    /\ hist = NoCalls
    /\ NoAugment /\ NoPrep

NextRelabel ==
    \E r \in Runs :
        \/ CallSegmMeanAccuracy(r, 1)
        \/ CallSegMeanIouNp(r, 1)

SpecRelabel == InitRelabel /\ [][NextRelabel]_vars

\* _augment has been called with an image at least target_shape high and wide
InitAugment ==
    /\ img \in ImageSides \X ImageSides
    /\ trial = 0
    /\ aug_pc = "loop"
    /\ crop = <<>>
    /\ out = <<>>
    /\ NoMetrics /\ NoPrep

NextAugment == AugmentAttempt \/ AugmentFallback

SpecAugment == InitAugment /\ [][NextAugment]_vars

InitPrep == NoPrep /\ NoMetrics /\ NoAugment

NextPrep ==
    \/ CallPrepareTfContext
    \/ PrepareModelCall
    \/ PrepareModelGetModel
    \/ PrepareModelWrap
    \/ PrepareModelCheck
    \/ PrepareModelLog
    \/ PrepareModelLoad
    \/ PrepareModelReturn

SpecPrep == InitPrep /\ [][NextPrep]_vars

InitDataflow == NoPrep /\ NoMetrics /\ NoAugment

NextDataflow ==
    \/ DataflowCall
    \/ DataflowParallel
    \/ DataflowTrainSource
    \/ DataflowTrainWarn
    \/ DataflowTrainPrefetch
    \/ DataflowValSource
    \/ DataflowValMap
    \/ DataflowReturn

SpecDataflow == InitDataflow /\ [][NextDataflow]_vars

\* ------------------------------------------------------------ claims

\* the calls made on run r
CallsOf(r) == {hist[r][i] : i \in 1..Len(hist[r])}

\* the skip-based metrics: pixel accuracy without vague pixels, the mean accuracies,
\* the mean IoUs and the frequency weighted IoUs that skip a class without support
IsSkipBased(c) ==
    \/ c.fn = "seg_pixel_accuracy_np" /\ c.args[2] = FALSE
    \/ c.fn \in {"segm_mean_accuracy_hmasks", "segm_mean_accuracy", "segm_mean_iou_imasks",
                 "seg_mean_iou_np", "segm_fw_iou_hmasks", "segm_fw_iou"}

\* C1: on a well-formed label mask and a prediction equal to it, every skip-based
\* metric returns exactly 1.0.
C1_IdenticalMasksScoreOne ==
    \A c \in CallsOf("a") : IsSkipBased(c) => c.ret = FOne

\* C1's case: the frequency weighted IoU of the 2x2 mask [[0,1],[1,1]] has been
\* taken against itself, and the mean IoU of a mask of a single class
C1_Witness ==
    \/ /\ arr["a"].label_imask = <<0, 1, 1, 1>>
       /\ \E c \in CallsOf("a") : c.fn = "segm_fw_iou" /\ c.ret = FOne
    \/ /\ arr["a"].label_imask = <<1, 1, 1>>
       /\ n_classes = 3
       /\ \E c \in CallsOf("a") : c.fn = "seg_mean_iou_np" /\ c.ret = FOne

\* the classes lo..n_classes-1 that occur in the label mask of run r
ClassesPresent(r, lo) ==
    {i \in lo..(n_classes - 1) : NpSum(arr[r].label_hmask[i + 1]) > 0}

\* C2 as claimed: on identical masks seg_mean_iou_imasks_np returns 1.0 (up to
\* epsilon) for either ignore_bg, whether or not every class occurs in the mask.
C2_OriginalAlwaysOne ==
    \A c \in CallsOf("a") :
        c.fn = "seg_mean_iou_imasks_np" /\ c.ret # ValueError => c.ret = <<1, 1>>

\* C2 amended: on identical masks seg_mean_iou_imasks_np returns (up to epsilon) the
\* fraction of the histogram's bins whose class occurs in the mask: the classes of
\* [0, num_classes) for ignore_bg=False, those of [1, num_classes) for
\* ignore_bg=True (num_classes >= 2), so 1.0 exactly when all of them occur; with
\* ignore_bg=True and num_classes = 1 there is no bin and it raises ValueError.
C2_FractionOfClassesPresent ==
    \A c \in CallsOf("a") :
        c.fn = "seg_mean_iou_imasks_np" =>
            IF c.args[2]
            THEN IF n_classes = 1 THEN c.ret = ValueError
                 ELSE c.ret = Rat(Cardinality(ClassesPresent("a", 1)), n_classes - 1)
            ELSE c.ret = Rat(Cardinality(ClassesPresent("a", 0)), n_classes)

\* C2's case: of three classes only one occurs and the mean IoU is 1/3, and with
\* every class in the mask it is 1
C2_Witness ==
    \/ /\ n_classes = 3
       /\ Cardinality(ClassesPresent("a", 0)) = 1
       /\ \E c \in CallsOf("a") :
             c.fn = "seg_mean_iou_imasks_np" /\ ~c.args[2] /\ c.ret = <<1, 3>>
    \/ /\ n_classes = 3
       /\ Cardinality(ClassesPresent("a", 0)) = 3
       /\ \E c \in CallsOf("a") :
             c.fn = "seg_mean_iou_imasks_np" /\ c.args[2] /\ c.ret = <<1, 1>>

\* C3 as claimed: after any sequence of calls the label and prediction arrays hold
\* the values they held before (those of the copy no call was made on), and two
\* calls of the same metric with the same arguments returned the same value.
C3_InputsUnchanged ==
    /\ arr["a"] = arr["b"]
    /\ \A i, j \in 1..Len(hist["a"]) :
          hist["a"][i].fn = hist["a"][j].fn /\ hist["a"][i].args = hist["a"][j].args
              => hist["a"][i].ret = hist["a"][j].ret

\* prepare_model was called with a path that is not empty and names no file
PathMissing ==
    /\ pm.pc # "idle"
    /\ pm.pretrained_model_file_path # ""
    /\ pm.pretrained_model_file_path \notin ExistingFiles

\* C4 as claimed: when prepare_model raises for a missing file, neither get_model
\* nor ImageNetModel nor get_model_loader has been called.
C4_OriginalNoEffectBeforeFailure ==
    pm.pc = "raised" =>
        \A k \in 1..Len(pm.effects) :
            pm.effects[k] \notin {"get_model", "ImageNetModel", "get_model_loader"}

\* C4 amended: prepare_model called with a non-empty path that names no file fails
\* with the assertion on os.path.isfile after the model-registry lookup (get_model)
\* and the ImageNetModel wrapper construction, in that order, and before the log
\* line and the weight-loader construction: it never constructs the loader and
\* never returns, and it raises for no other path.
C4_FailsAfterModelBeforeLoader ==
    /\ pm.pc = "raised" =>
           /\ PathMissing
           /\ pm.effects = <<"get_model", "ImageNetModel">>
           /\ pm.ret = <<"AssertionError">>
    /\ PathMissing =>
           /\ pm.pc \in {"get_model", "wrap", "check", "raised"}
           /\ \A k \in 1..Len(pm.effects) :
                  pm.effects[k] \notin {"logging.info", "get_model_loader"}

\* C4's case: the call with the path of a missing file has raised
C4_Witness ==
    /\ pm.pc = "raised"
    /\ pm.pretrained_model_file_path = "missing.npz"
    /\ pm.effects = <<"get_model", "ImageNetModel">>

\* the pixels of run r whose label is not vague_idx, and those of them predicted right
NotVague(r, vague_idx) ==
    {k \in 1..Len(arr[r].label_imask) : arr[r].label_imask[k] # vague_idx}

Hits(r, vague_idx) ==
    {k \in NotVague(r, vague_idx) : arr[r].pred_imask[k] = arr[r].label_imask[k]}

\* C5: seg_pixel_accuracy_np with use_vague=True never divides by zero: it returns
\* exactly 0.0 when every label pixel is vague_idx, and otherwise the quotient of the
\* number of pixels that are not vague and predicted right by the number of pixels
\* that are not vague, a value in [0, 1].
C5_VagueAccuracyDefined ==
    \A c \in CallsOf("a") :
        c.fn = "seg_pixel_accuracy_np" /\ c.args[2] =>
            /\ c.ret # DivisionByZero
            /\ IF NotVague("a", c.args[1]) = {}
               THEN c.ret = FZero
               ELSE /\ c.ret = FDivInt(FromInt(Cardinality(Hits("a", c.args[1]))),
                                       Cardinality(NotVague("a", c.args[1])))
                    /\ FLeq(FZero, c.ret) /\ FLeq(c.ret, FOne)

\* C5's case: every label pixel is vague and the call with use_vague=True has
\* returned 0.0
C5_Witness ==
    /\ arr["a"].label_imask = <<-1, -1>>
    /\ \E c \in CallsOf("a") :
          c.fn = "seg_pixel_accuracy_np" /\ c.args = <<-1, TRUE>> /\ c.ret = FZero

\* C6: _augment makes at most 10 passes of its loop and then the fallback, it
\* returns an image of exactly target_shape x target_shape, and the window of a
\* pass that fits is not empty and lies inside the image.
C6_AugmentReturnsTargetShape ==
    /\ trial <= MaxAttempts
    /\ aug_pc = "loop" => ENABLED NextAugment
    /\ aug_pc = "returned" => out = <<target_shape, target_shape>>
    /\ crop # <<>> =>
           /\ crop[3] >= 1 /\ crop[4] >= 1
           /\ 0 <= crop[1] /\ crop[1] + crop[3] <= img[2]
           /\ 0 <= crop[2] /\ crop[2] + crop[4] <= img[1]

\* C6's case: on the tenth pass a window as wide as the image has been cut out at
\* the greatest offset randint gives, and returned resized
C6_Witness ==
    /\ aug_pc = "returned"
    /\ trial = MaxAttempts
    /\ crop # <<>>
    /\ crop[1] = 0 /\ crop[3] = img[2]
    /\ crop[2] > 0 /\ crop[2] + crop[4] = img[1] - 1
    /\ out = <<target_shape, target_shape>>

\* the calls of seg_mean_iou_imasks_np with ignore_bg=True made on run r
BgCallsOf(r) == {c \in CallsOf(r) : c.fn = "seg_mean_iou_imasks_np" /\ c.args[2]}

\* C7: with ignore_bg=True, two predictions that agree wherever the label is > 0 get
\* the same score from seg_mean_iou_imasks_np, whatever they predict where the label
\* is 0: the three histograms the score is computed from are the same.
C7_BackgroundPredictionIgnored ==
    /\ Areas(arr["a"].label_imask, arr["a"].pred_imask, n_classes, TRUE)
           = Areas(arr["b"].label_imask, arr["b"].pred_imask, n_classes, TRUE)
    /\ \A ca \in BgCallsOf("a"), cb \in BgCallsOf("b") : ca.ret = cb.ret

\* C7's case: two classes, the background pixels predicted right in run a and as
\* class 1 in run b, and both scored
C7_Witness ==
    /\ n_classes = 2
    /\ arr["a"].label_imask = <<0, 0, 1, 1>>
    /\ arr["a"].pred_imask = <<0, 0, 1, 0>>
    /\ arr["b"].pred_imask = <<1, 1, 1, 0>>
    /\ \E ca \in BgCallsOf("a"), cb \in BgCallsOf("b") : ca.ret = <<1, 2>> /\ cb.ret = <<1, 2>>

\* the pixels of class i in the label of run r, in its prediction, and in both
LabelPixels(r, i) ==
    {k \in 1..Len(arr[r].pred_imask) : arr[r].label_hmask[i + 1][k] = 1}

PredPixels(r, i) == {k \in 1..Len(arr[r].pred_imask) : arr[r].pred_imask[k] = i}

\* the classes that contribute to the mean accuracy and to the mean IoU of run r
AccClasses(r) == {i \in 0..(n_classes - 1) : LabelPixels(r, i) # {}}

IouClasses(r) == {i \in 0..(n_classes - 1) : LabelPixels(r, i) \cup PredPixels(r, i) # {}}

\* u_ii / u_i and u_ii / (u_i + u_ji_sj - u_ii) of a contributing class i of run r
AccTerm(r, i) ==
    FDivInt(FromInt(Cardinality(LabelPixels(r, i) \cap PredPixels(r, i))),
            Cardinality(LabelPixels(r, i)))

IouTerm(r, i) ==
    FDivInt(FromInt(Cardinality(LabelPixels(r, i) \cap PredPixels(r, i))),
            Cardinality(LabelPixels(r, i) \cup PredPixels(r, i)))

\* the binary64 sum of terms[i] over the classes i of S in the order order[1],
\* order[2], ... up to order[j]
RECURSIVE SumInOrder(_, _, _, _)
SumInOrder(terms, S, order, j) ==
    IF j = 0 THEN FZero
    ELSE IF order[j] \in S
    THEN FAdd(SumInOrder(terms, S, order, j - 1), terms[order[j]])
    ELSE SumInOrder(terms, S, order, j - 1)

\* their mean, and 1.0 when S is empty
MeanInOrder(terms, S, order) ==
    IF S = {} THEN FOne
    ELSE FDivInt(SumInOrder(terms, S, order, Len(order)), Cardinality(S))

Ascending == [j \in 1..n_classes |-> j - 1]

\* C8 as claimed: the relabelled inputs get the same result as the original ones.
C8_OriginalSameResult ==
    \A ca \in CallsOf("a"), cb \in CallsOf("b") : ca.fn = cb.fn => ca.ret = cb.ret

\* the permutations that relabel the arrays of run a into those of run b
RelabellingsOf == {q \in Perms(n_classes) : arr["b"] = Relabelled(arr["a"], q)}

\* the classes of run a in the order the loop meets them after relabelling by q
OrderUnder(q) == [j \in 1..n_classes |-> CHOOSE i \in DOMAIN q : q[i] = j - 1]

\* the mean of the fractions cnt[i] / tot[i] over the classes of S, as a fraction
RECURSIVE RatSumOver(_, _, _)
RatSumOver(S, num, den) ==
    IF S = {} THEN <<0, 1>>
    ELSE LET i == CHOOSE x \in S : TRUE
         IN  RatAdd(Rat(num[i], den[i]), RatSumOver(S \ {i}, num, den))

ExactMean(S, num, den) ==
    IF S = {} THEN <<1, 1>>
    ELSE LET t == RatSumOver(S, num, den) IN Rat(t[1], t[2] * Cardinality(S))

ExactMeanAccuracy(r) ==
    ExactMean(AccClasses(r),
              [i \in AccClasses(r) |-> Cardinality(LabelPixels(r, i) \cap PredPixels(r, i))],
              [i \in AccClasses(r) |-> Cardinality(LabelPixels(r, i))])

ExactMeanIou(r) ==
    ExactMean(IouClasses(r),
              [i \in IouClasses(r) |-> Cardinality(LabelPixels(r, i) \cap PredPixels(r, i))],
              [i \in IouClasses(r) |-> Cardinality(LabelPixels(r, i) \cup PredPixels(r, i))])

\* C8 amended: on inputs relabelled by a permutation q, segm_mean_accuracy and
\* seg_mean_iou_np average the per-class ratios of the original inputs over the same
\* number of classes, accumulated in the order of the new indices.  The mean is the
\* same in exact arithmetic, and the binary64 value returned is the same whenever at
\* most two classes contribute; with more it is the sum in the new order, rounded,
\* which can differ from the original in the last bit.
C8_SameTermsInNewOrder ==
    /\ ExactMeanAccuracy("a") = ExactMeanAccuracy("b")
    /\ ExactMeanIou("a") = ExactMeanIou("b")
    /\ \A cb \in CallsOf("b"), q \in RelabellingsOf :
          /\ cb.fn = "segm_mean_accuracy" =>
                 cb.ret = MeanInOrder([i \in AccClasses("a") |-> AccTerm("a", i)],
                                      AccClasses("a"), OrderUnder(q))
          /\ cb.fn = "seg_mean_iou_np" =>
                 cb.ret = MeanInOrder([i \in IouClasses("a") |-> IouTerm("a", i)],
                                      IouClasses("a"), OrderUnder(q))
    /\ \A ca \in CallsOf("a"), cb \in CallsOf("b") :
          /\ ca.fn = "segm_mean_accuracy" /\ cb.fn = "segm_mean_accuracy"
                  /\ Cardinality(AccClasses("a")) <= 2 => ca.ret = cb.ret
          /\ ca.fn = "seg_mean_iou_np" /\ cb.fn = "seg_mean_iou_np"
                  /\ Cardinality(IouClasses("a")) <= 2 => ca.ret = cb.ret

\* C8's case: three classes contribute, the classes are relabelled 0->2, 1->0, 2->1,
\* and the mean accuracy of both inputs has been taken
C8_Witness ==
    /\ n_classes = 3
    /\ arr["a"].label_imask = <<0, 0, 0, 1, 2>>
    /\ arr["a"].pred_imask = <<0, 1, 1, 1, 2>>
    /\ arr["b"].label_imask = <<2, 2, 2, 0, 1>>
    /\ \E ca \in CallsOf("a"), cb \in CallsOf("b") :
          ca.fn = "segm_mean_accuracy" /\ cb.fn = "segm_mean_accuracy"

\* C9: prepare_tf_context(num_gpus, batch_size) returns batch_size * max(1, num_gpus):
\* batch_size itself for num_gpus <= 0, batch_size * num_gpus for num_gpus >= 1.
C9_BatchTimesAtLeastOneGpu ==
    ctx.called =>
        /\ ctx.num_gpus <= 0 => ctx.ret = ctx.batch_size
        /\ ctx.num_gpus >= 1 => ctx.ret = ctx.batch_size * ctx.num_gpus

\* C9's case: the calls with 0 and 32 and with 4 and 32 of the specification
C9_Witness ==
    \/ ctx.called /\ ctx.num_gpus = 0 /\ ctx.batch_size = 32 /\ ctx.ret = 32
    \/ ctx.called /\ ctx.num_gpus = 4 /\ ctx.batch_size = 32 /\ ctx.ret = 128

\* C10: segm_mean_accuracy returns the mean of u_ii/u_i over exactly the classes with
\* u_i > 0, seg_mean_iou_np the mean of u_ii/(u_i + u_ji_sj - u_ii) over exactly the
\* classes with u_i + u_ji_sj > 0, each 1.0 when no class contributes, and neither
\* divides by zero.
C10_MeanOverContributingClasses ==
    \A c \in CallsOf("a") :
        /\ c.ret # DivisionByZero
        /\ c.fn = "segm_mean_accuracy" =>
               c.ret = MeanInOrder([i \in AccClasses("a") |-> AccTerm("a", i)],
                                   AccClasses("a"), Ascending)
        /\ c.fn = "seg_mean_iou_np" =>
               c.ret = MeanInOrder([i \in IouClasses("a") |-> IouTerm("a", i)],
                                   IouClasses("a"), Ascending)

\* C10's case: of three classes one has no pixel in the label or the prediction and
\* the mean IoU is that of the two others, ((1/2) + 1) / 2 = 0.75
C10_Witness ==
    /\ n_classes = 3
    /\ arr["a"].label_hmask = <<<<1, 1, 0>>, <<0, 0, 0>>, <<0, 0, 1>>>>
    /\ arr["a"].pred_imask = <<0, -1, 2>>
    /\ \E c \in CallsOf("a") : c.fn = "seg_mean_iou_np" /\ c.ret = <<-1, 50331648, 0>>

\* the calls get_imagenet_dataflow has made so far
DataflowEffects == {df.effects[k] : k \in 1..Len(df.effects)}

\* it was called with an explicit parallel below 16
ExplicitBelowLimit == df.pc # "idle" /\ df.parallel_arg # <<>> /\ df.parallel_arg[1] < 16

\* C11 as claimed: whenever the caller passes an explicit parallel below 16 the
\* warning has been emitted when the pipeline is returned, on the training path and
\* on the validation path alike.
C11_OriginalWarnsOnBothPaths ==
    df.pc = "returned" /\ ExplicitBelowLimit => "logging.warning" \in DataflowEffects

\* C11 amended: on the training path get_imagenet_dataflow emits the warning exactly
\* when the parallelism used is below 16, be it the explicit argument or the default,
\* after the augmentation stage and before the prefetch stage and the return; on
\* the validation path it never emits it.  The parallelism used, which
\* PrefetchDataZMQ (training) or MultiThreadMapData (validation) is built with, is
\* the argument when given and min(40, cpu_count // 2) when not.
C11_WarnsOnTrainingPathOnly ==
    LET used == IF df.parallel_arg # <<>> THEN df.parallel_arg[1]
                ELSE IF df.cpu_count \div 2 < 40 THEN df.cpu_count \div 2 ELSE 40
    IN  /\ df.pc \notin {"idle", "parallel"} => df.parallel = used
        /\ df.pc # "returned" => df.ret = <<>>
        /\ ~df.is_train => "logging.warning" \notin DataflowEffects
        /\ df.pc = "returned" /\ df.is_train =>
               /\ df.ret[3] = <<"PrefetchDataZMQ", used>>
               /\ df.effects = IF used < 16
                               THEN <<"ILSVRC12", "AugmentImageComponent", "logging.warning",
                                      "PrefetchDataZMQ", "BatchData">>
                               ELSE <<"ILSVRC12", "AugmentImageComponent",
                                      "PrefetchDataZMQ", "BatchData">>
        /\ df.pc = "returned" /\ ~df.is_train =>
               /\ df.ret[2] = <<"MultiThreadMapData", used>>
               /\ df.effects = <<"ILSVRC12Files", "AugmentorList", "MultiThreadMapData",
                                 "BatchData", "PrefetchDataZMQ">>

\* C11's case: the validation pipeline has been returned for an explicit parallel of
\* 4 with no warning emitted
C11_Witness ==
    /\ df.pc = "returned"
    /\ ~df.is_train
    /\ df.parallel_arg = <<4>>
    /\ df.ret[2] = <<"MultiThreadMapData", 4>>
    /\ "logging.warning" \notin DataflowEffects

====
